---- MODULE Spec2Model ----
(***************************************************************************)
(* Multi-user correlation indicators of the bandicoot marketplace:         *)
(* custom_indicators/colocation.py and custom_indicators/network.py.       *)
(*                                                                         *)
(* The indicators are pure functions over bandicoot User objects.  The     *)
(* state is the caller's data (the users, their identifiers, the window)   *)
(* and the value the last call returned; param is the further setting the  *)
(* call was made with, where it has one (gap_threshold_minutes,            *)
(* min_sequence_length, min_shared, time_bucket_hours); previous holds the *)
(* value of the first run once the same call has been made again; timeline *)
(* (all_comms) and current_start are the locals of network_timeline where  *)
(* its loop is followed step by step.  The caller appends records to the   *)
(* users and then calls one indicator; a call is one action that computes  *)
(* the whole function, its trailing sort or deduplication included.  A     *)
(* datetime is a number of seconds, so that (a - b).total_seconds() is     *)
(* a - b.                                                                  *)
(***************************************************************************)
EXTENDS Integers, Sequences, FiniteSets, TLC

VARIABLES users, user_ids, window, param, result, previous, timeline, current_start, pc

vars == <<users, user_ids, window, param, result, previous, timeline, current_start, pc>>

-----------------------------------------------------------------------------
(* Bounds of the model *)

\* records the caller supplies in all (over both users) to a two-user call
MaxPairRecords == 3

\* records the caller supplies in all to a call of the clusterer on three users
MaxGroupRecords == 4

\* records the caller supplies in all to a call of the chain detector
MaxChainRecords == 3

\* records the caller supplies in all to a call of a network aggregator
MaxNetworkRecords == 4

\* records the caller supplies in all to a call of travel_pattern_match
MaxTravelRecords == 4

\* records of user A the caller supplies to a call of meeting_detection
MaxMeetingRecords == 7

\* records the caller supplies in all when some name no correspondent
MaxNullRecords == 3

\* records the caller supplies in all when every indicator may be called
MaxAnyRecords == 2

\* records the caller supplies in all to a call of a contact-set aggregator
MaxContactRecords == 4

\* records the caller supplies in all to a call of the volume matrix
MaxVolumeRecords == 4

\* records the caller supplies in all to a call of network_timeline
MaxTimelineRecords == 3

\* records the caller supplies in all when the loop of network_timeline is
\* followed step by step
MaxLoopRecords == 2

\* largest window, in minutes, the caller passes
MaxWindow == 1

-----------------------------------------------------------------------------
(* Values *)

\* Python's None
None == "None"

\* the empty string: not None, but false in a boolean context
Empty == ""

\* bool(x) of an optional string
Truthy(x) == x # None /\ x # Empty

\* datetimes of the records, in seconds
Times == {0, 40, 80}

\* antenna ids that name a place
Places == {"T1", "T2"}

\* r.position.antenna of a record
Tags == {None, Empty} \cup Places

\* window_minutes values
Windows == 0..MaxWindow

\* a bandicoot Record, reduced to the attributes the indicators read;
\* call_duration is <<>> for None and <<d>> for d seconds
FullRec(t, tag, dir, corr, kind, duration) ==
    [datetime |-> t, antenna |-> tag, direction |-> dir, correspondent_id |-> corr,
     interaction |-> kind, call_duration |-> duration]

\* a text record: the kind and the duration are read by the volume matrix only
Rec(t, tag, dir, corr) == FullRec(t, tag, dir, corr, "text", <<>>)

\* a bandicoot User: its records and its antenna table (antenna id -> coordinate)
User(recs, table) == [records |-> recs, antennas |-> table]

\* the records the co-location indicators tell apart: they read datetime and antenna
LocationRecords == {Rec(t, tag, "out", None) : t \in Times, tag \in Tags}

\* an antenna table with entries for the places in S
Table(S, c) == [p \in S |-> c]

Abs(x) == IF x < 0 THEN -x ELSE x

-----------------------------------------------------------------------------
(* list.sort(key=...): stable, ascending in the key *)

Insert(sorted, x, key) ==
    LET n == Cardinality({i \in 1..Len(sorted) : sorted[i][key] <= x[key]})
    IN SubSeq(sorted, 1, n) \o <<x>> \o SubSeq(sorted, n + 1, Len(sorted))

RECURSIVE StableSort(_, _)
StableSort(s, key) ==
    IF Len(s) <= 1 THEN s
    ELSE Insert(StableSort(SubSeq(s, 1, Len(s) - 1), key), s[Len(s)], key)

\* list.sort(key=..., reverse=True): stable, descending in the key
InsertDesc(sorted, x, key) ==
    LET n == Cardinality({i \in 1..Len(sorted) : sorted[i][key] >= x[key]})
    IN SubSeq(sorted, 1, n) \o <<x>> \o SubSeq(sorted, n + 1, Len(sorted))

RECURSIVE StableSortDesc(_, _)
StableSortDesc(s, key) ==
    IF Len(s) <= 1 THEN s
    ELSE InsertDesc(StableSortDesc(SubSeq(s, 1, Len(s) - 1), key), s[Len(s)], key)

\* list(S) of a set: its elements once each, in an order the language leaves open
ListsOfSet(S) ==
    {f \in [1..Cardinality(S) -> S] : \A x \in S : \E i \in 1..Cardinality(S) : f[i] = x}

\* sorted(items, key=..., reverse=True) over items [key |-> k, item |-> x]:
\* the items' values in stable descending order of their keys
SortDescByKey(items) ==
    LET s == StableSortDesc(items, "key")
    IN  [k \in 1..Len(s) |-> s[k].item]

\* the lists whose k-th entry is one of the forms variants[k]: the forms of
\* an entry differ in the order list(set) gave to its set-valued fields
SeqsOfVariants(variants) ==
    {r \in [1..Len(variants) -> UNION {variants[k] : k \in 1..Len(variants)}] :
        \A k \in 1..Len(variants) : r[k] \in variants[k]}

\* the distinct values of a sequence in the order of their first appearance
\* (the key order of a dict filled in that order)
RECURSIVE FirstAppearances(_)
FirstAppearances(s) ==
    IF s = <<>> THEN <<>>
    ELSE LET front == FirstAppearances(SubSeq(s, 1, Len(s) - 1))
         IN  IF \E i \in 1..Len(front) : front[i] = s[Len(s)] THEN front
             ELSE Append(front, s[Len(s)])

-----------------------------------------------------------------------------
(* colocation.py: antenna_overlap *)

WindowSecondsAsIs(window_minutes) == window_minutes

\* window_seconds = window_minutes * 60
WindowSeconds(window_minutes) == window_minutes * 60

\* antennas = user_a.antennas or user_b.antennas or {}
Antennas(user_a, user_b) ==
    IF DOMAIN user_a.antennas # {} THEN user_a.antennas
    ELSE IF DOMAIN user_b.antennas # {} THEN user_b.antennas
    ELSE Table({}, None)

\* antennas.get(antenna)
TableGet(antennas, antenna) ==
    IF antenna \in DOMAIN antennas THEN antennas[antenna] ELSE None

\* b_by_antenna: user_b's records with a truthy antenna, by antenna, in list order
BByAntenna(user_b) ==
    LET recs == user_b.records
        keys == {recs[i].antenna : i \in {k \in 1..Len(recs) : Truthy(recs[k].antenna)}}
    IN [a \in keys |-> LET At(r) == r.antenna = a IN SelectSeq(recs, At)]

SignedDelta(rec_a, rec_b) == rec_a.datetime - rec_b.datetime

\* delta = abs((rec_a.datetime - rec_b.datetime).total_seconds())
Delta(rec_a, rec_b) == Abs(rec_a.datetime - rec_b.datetime)

WithinWindowStrict(delta, window_seconds) == delta < window_seconds

WithinWindowInverted(delta, window_seconds) == delta >= window_seconds

\* if delta <= window_seconds
WithinWindow(delta, window_seconds) == delta <= window_seconds

\* the dict appended for one (rec_a, rec_b)
OverlapEntry(rec_a, rec_b, antennas) ==
    [antenna_id |-> rec_a.antenna,
     user_a_time |-> rec_a.datetime,
     user_b_time |-> rec_b.datetime,
     delta_seconds |-> Delta(rec_a, rec_b),
     coordinates |-> TableGet(antennas, rec_a.antenna)]

\* for rec_b in b_by_antenna[antenna]: the entries one rec_a appends
MatchesFor(rec_a, bucket, window_seconds, antennas) ==
    LET Hit(rec_b) == WithinWindow(Delta(rec_a, rec_b), window_seconds)
        hits == SelectSeq(bucket, Hit)
    IN [k \in 1..Len(hits) |-> OverlapEntry(rec_a, hits[k], antennas)]

\* for rec_a in user_a.records, from the i-th record on
RECURSIVE ScanA(_, _, _, _, _)
ScanA(records, i, b_by_antenna, window_seconds, antennas) ==
    IF i > Len(records) THEN <<>>
    ELSE LET rec_a == records[i]
             rest == ScanA(records, i + 1, b_by_antenna, window_seconds, antennas)
         IN IF rec_a.antenna = None THEN rest
            ELSE IF rec_a.antenna \notin DOMAIN b_by_antenna THEN rest
            ELSE MatchesFor(rec_a, b_by_antenna[rec_a.antenna],
                            window_seconds, antennas) \o rest

SortOverlapsByBTime(overlaps) == StableSort(overlaps, "user_b_time")

\* overlaps.sort(key=lambda x: x['user_a_time'])
SortOverlaps(overlaps) == StableSort(overlaps, "user_a_time")

antenna_overlap(user_a, user_b, window_minutes) ==
    SortOverlaps(ScanA(user_a.records, 1, BByAntenna(user_b),
                       WindowSeconds(window_minutes), Antennas(user_a, user_b)))

-----------------------------------------------------------------------------
(* colocation.py: travel_pattern_match *)

RecordsSortedInPlace(user) == StableSort(user.records, "datetime")

\* user.records after get_transitions: sorted() builds a new list from a
\* comprehension and leaves the caller's list as it was
RecordsAfterSorted(user) == user.records

\* sorted([r for r in user.records if r.position.antenna], key=datetime)
SortedLocated(user) ==
    LET Located(r) == Truthy(r.antenna)
    IN  StableSort(SelectSeq(user.records, Located), "datetime")

ChangedPlaceOrStayed(prev, curr) == TRUE

\* if prev.position.antenna != curr.position.antenna
ChangedPlace(prev, curr) == prev.antenna # curr.antenna

\* for i in range(1, len(sorted_records)): the transitions from position i on
RECURSIVE TransitionsFrom(_, _)
TransitionsFrom(sorted_records, i) ==
    IF i > Len(sorted_records) THEN <<>>
    ELSE (IF ChangedPlace(sorted_records[i - 1], sorted_records[i])
          THEN <<[from |-> sorted_records[i - 1].antenna,
                  to |-> sorted_records[i].antenna,
                  time |-> sorted_records[i].datetime]>>
          ELSE <<>>)
         \o TransitionsFrom(sorted_records, i + 1)

get_transitions(user) == TransitionsFrom(SortedLocated(user), 2)

\* the dict appended for a matching pair of transitions
TransitionMatch(ta, tb) ==
    [from_antenna |-> ta.from,
     to_antenna |-> ta.to,
     user_a_time |-> ta.time,
     user_b_time |-> tb.time,
     delta_seconds |-> Abs(ta.time - tb.time)]

\* for tb in trans_b: the matches one ta appends
MatchesOfTransition(ta, trans_b, window_seconds) ==
    LET Same(tb) == /\ ta.from = tb.from
                    /\ ta.to = tb.to
                    /\ Abs(ta.time - tb.time) <= window_seconds
        same == SelectSeq(trans_b, Same)
    IN  [k \in 1..Len(same) |-> TransitionMatch(ta, same[k])]

\* for ta in trans_a, from the i-th transition on
RECURSIVE MatchTransitions(_, _, _, _)
MatchTransitions(trans_a, i, trans_b, window_seconds) ==
    IF i > Len(trans_a) THEN <<>>
    ELSE MatchesOfTransition(trans_a[i], trans_b, window_seconds)
         \o MatchTransitions(trans_a, i + 1, trans_b, window_seconds)

\* the list travel_pattern_match returns; min_sequence_length is not read
travel_pattern_match(user_a, user_b, window_minutes, min_sequence_length) ==
    IF get_transitions(user_a) = <<>> \/ get_transitions(user_b) = <<>> THEN <<>>
    ELSE MatchTransitions(get_transitions(user_a), 1, get_transitions(user_b),
                          window_minutes * 60)

-----------------------------------------------------------------------------
(* colocation.py: meeting_detection *)

AroundInclusive(dt, gap_seconds) == Abs(dt) <= gap_seconds

\* if abs((r.datetime - meeting_time).total_seconds()) < gap_seconds
Around(dt, gap_seconds) == Abs(dt) < gap_seconds

\* len(a_records_around)
ActivityLevel(user_a, meeting_time, gap_seconds) ==
    Cardinality({i \in 1..Len(user_a.records) :
                    Around(user_a.records[i].datetime - meeting_time, gap_seconds)})

ConfidenceTwoTier(activity_level) == IF activity_level < 3 THEN "high" ELSE "medium"

\* 'high' if activity_level < 3 else 'medium' if activity_level < 6 else 'low'
Confidence(activity_level) ==
    IF activity_level < 3 THEN "high"
    ELSE IF activity_level < 6 THEN "medium" ELSE "low"

\* the dict appended for one co-location
MeetingEntry(user_a, coloc, gap_seconds) ==
    [antenna_id |-> coloc.antenna_id,
     time |-> coloc.user_a_time,
     coordinates |-> coloc.coordinates,
     delta_seconds |-> coloc.delta_seconds,
     activity_around |-> ActivityLevel(user_a, coloc.user_a_time, gap_seconds),
     confidence |-> Confidence(ActivityLevel(user_a, coloc.user_a_time, gap_seconds))]

MeetingDetectionCountingBoth(user_a, user_b, colocation_window_minutes, gap_threshold_minutes) ==
    LET colocations == antenna_overlap(user_a, user_b, colocation_window_minutes)
        both == [user_a EXCEPT !.records = user_a.records \o user_b.records]
    IN  [k \in 1..Len(colocations) |->
            MeetingEntry(both, colocations[k], gap_threshold_minutes * 60)]

\* the list meeting_detection returns
meeting_detection(user_a, user_b, colocation_window_minutes, gap_threshold_minutes) ==
    LET colocations == antenna_overlap(user_a, user_b, colocation_window_minutes)
    IN  [k \in 1..Len(colocations) |->
            MeetingEntry(user_a, colocations[k], gap_threshold_minutes * 60)]

-----------------------------------------------------------------------------
(* colocation.py: multi_user_colocation *)

\* the hits of one user's records: those with a truthy antenna, in list order;
\* user_index is enumerate's 0-based index
HitsOfUser(user, i) ==
    LET Located(r) == Truthy(r.antenna)
        recs == SelectSeq(user.records, Located)
    IN [k \in 1..Len(recs) |->
           [user_index |-> i, datetime |-> recs[k].datetime, antenna |-> recs[k].antenna]]

\* for i, user in enumerate(users): the hits of users[n..], n counted from 1
RECURSIVE CollectHits(_, _)
CollectHits(us, n) ==
    IF n > Len(us) THEN <<>>
    ELSE HitsOfUser(us[n], n - 1) \o CollectHits(us, n + 1)

\* all_hits.sort(key=lambda x: x['datetime'])
SortHits(all_hits) == StableSort(all_hits, "datetime")

PastWindowNever(delta, window_seconds) == FALSE

PastWindowFromEdge(delta, window_seconds) == delta >= window_seconds

\* if delta > window_seconds: break
PastWindow(delta, window_seconds) == delta > window_seconds

\* [c['user_index'] for c in cluster]
ClusterUsers(cluster) == {cluster[k].user_index : k \in 1..Len(cluster)}

\* for j in range(i + 1, len(all_hits)): the cluster grown from position j on
RECURSIVE Absorb(_, _, _, _, _)
Absorb(all_hits, hit, j, cluster, window_seconds) ==
    IF j > Len(all_hits) THEN cluster
    ELSE LET other == all_hits[j]
             delta == other.datetime - hit.datetime
         IN IF PastWindow(delta, window_seconds) THEN cluster
            ELSE IF /\ other.antenna = hit.antenna
                    /\ other.user_index # hit.user_index
                    /\ other.user_index \notin ClusterUsers(cluster)
                 THEN Absorb(all_hits, hit, j + 1, Append(cluster, other), window_seconds)
                 ELSE Absorb(all_hits, hit, j + 1, cluster, window_seconds)

\* sorted(S) of a set of integers
RECURSIVE SortedList(_)
SortedList(S) ==
    IF S = {} THEN <<>>
    ELSE LET m == CHOOSE x \in S : \A y \in S : x <= y
         IN <<m>> \o SortedList(S \ {m})

MinOf(S) == CHOOSE x \in S : \A y \in S : x <= y

MaxOf(S) == CHOOSE x \in S : \A y \in S : x >= y

ReportablePair(cluster) == Len(cluster) >= 2

ReportableAny(cluster) == TRUE

\* if len(cluster) >= 3
Reportable(cluster) == Len(cluster) >= 3

\* the dict appended for the cluster of anchor hit
ClusterEntry(hit, cluster) ==
    LET user_indices == SortedList(ClusterUsers(cluster))
        times == {cluster[k].datetime : k \in 1..Len(cluster)}
    IN [antenna |-> hit.antenna,
        user_indices |-> user_indices,
        participant_count |-> Len(user_indices),
        earliest_time |-> MinOf(times),
        latest_time |-> MaxOf(times),
        time_span_seconds |-> MaxOf(times) - MinOf(times)]

\* for i, hit in enumerate(all_hits), from position i on: the clusters reported
RECURSIVE FindClusters(_, _, _)
FindClusters(all_hits, i, window_seconds) ==
    IF i > Len(all_hits) THEN <<>>
    ELSE LET hit == all_hits[i]
             cluster == Absorb(all_hits, hit, i + 1, <<hit>>, window_seconds)
             rest == FindClusters(all_hits, i + 1, window_seconds)
         IN IF Reportable(cluster) THEN <<ClusterEntry(hit, cluster)>> \o rest
            ELSE rest

\* earliest_time.isoformat()[:16]: 'YYYY-MM-DDTHH:MM', the time cut to its minute
MinuteOf(t) == t \div 60

DedupKeyExact(c) == <<c.antenna, c.user_indices, c.earliest_time>>

\* key = (c['antenna'], tuple(c['user_indices']), c['earliest_time'].isoformat()[:16])
DedupKey(c) == <<c.antenna, c.user_indices, MinuteOf(c.earliest_time)>>

\* the deduplication loop, from colocation i on, with the keys seen so far
RECURSIVE Deduplicate(_, _, _)
Deduplicate(colocations, i, seen) ==
    IF i > Len(colocations) THEN <<>>
    ELSE LET c == colocations[i]
         IN IF DedupKey(c) \notin seen
            THEN <<c>> \o Deduplicate(colocations, i + 1, seen \cup {DedupKey(c)})
            ELSE Deduplicate(colocations, i + 1, seen)

multi_user_colocation(us, window_minutes) ==
    LET all_hits == SortHits(CollectHits(us, 1))
        colocations == FindClusters(all_hits, 1, WindowSeconds(window_minutes))
    IN Deduplicate(colocations, 1, {})

-----------------------------------------------------------------------------
(* network.py: communication_chains *)

\* the outgoing communications of one user, in list order
CommsOfUser(user, user_id) ==
    LET Out(r) == r.direction = "out"
        recs == SelectSeq(user.records, Out)
    IN [k \in 1..Len(recs) |->
           [from |-> user_id, to |-> recs[k].correspondent_id, time |-> recs[k].datetime]]

\* for i, user in enumerate(users): the communications of users[n..]
RECURSIVE CollectComms(_, _, _)
CollectComms(us, ids, n) ==
    IF n > Len(us) THEN <<>>
    ELSE CommsOfUser(us[n], ids[n]) \o CollectComms(us, ids, n + 1)

\* all_comms.sort(key=lambda x: x['time'])
SortComms(all_comms) == StableSort(all_comms, "time")

ChainNeverPastWindow(delta, window_seconds) == FALSE

\* if delta > window_seconds: break
ChainPastWindow(delta, window_seconds) == delta > window_seconds

\* if comm_ab['to'] == comm_bc['from']
Links(comm_ab, comm_bc) == comm_ab.to = comm_bc.from

\* the dict appended for a chain A -> B -> C
ChainEntry(comm_ab, comm_bc) ==
    [sequence |-> <<comm_ab.from, comm_ab.to, comm_bc.to>>,
     times |-> <<comm_ab.time, comm_bc.time>>,
     total_time_seconds |-> comm_bc.time - comm_ab.time,
     a_to_b |-> comm_ab,
     b_to_c |-> comm_bc]

RECURSIVE ScanForwardToFirstMatch(_, _, _, _)
ScanForwardToFirstMatch(all_comms, comm_ab, j, window_seconds) ==
    IF j > Len(all_comms) THEN <<>>
    ELSE LET comm_bc == all_comms[j]
             delta == comm_bc.time - comm_ab.time
         IN IF ChainPastWindow(delta, window_seconds) THEN <<>>
            ELSE IF Links(comm_ab, comm_bc) THEN <<ChainEntry(comm_ab, comm_bc)>>
            ELSE ScanForwardToFirstMatch(all_comms, comm_ab, j + 1, window_seconds)

\* for j in range(i + 1, len(all_comms)): the chains comm_ab starts, from j on
RECURSIVE ScanForward(_, _, _, _)
ScanForward(all_comms, comm_ab, j, window_seconds) ==
    IF j > Len(all_comms) THEN <<>>
    ELSE LET comm_bc == all_comms[j]
             delta == comm_bc.time - comm_ab.time
         IN IF ChainPastWindow(delta, window_seconds) THEN <<>>
            ELSE (IF Links(comm_ab, comm_bc)
                  THEN <<ChainEntry(comm_ab, comm_bc)>> ELSE <<>>)
                 \o ScanForward(all_comms, comm_ab, j + 1, window_seconds)

\* for i, comm_ab in enumerate(all_comms), from position i on
RECURSIVE FindChains(_, _, _)
FindChains(all_comms, i, window_seconds) ==
    IF i > Len(all_comms) THEN <<>>
    ELSE ScanForward(all_comms, all_comms[i], i + 1, window_seconds)
         \o FindChains(all_comms, i + 1, window_seconds)

\* user_ids[i] raises IndexError when user_ids is shorter than users
communication_chains(us, ids, time_window_minutes) ==
    IF Len(ids) < Len(us) THEN "IndexError"
    ELSE FindChains(SortComms(CollectComms(us, ids, 1)), 1,
                    WindowSeconds(time_window_minutes))

-----------------------------------------------------------------------------
(* network.py: identify_bridges *)

\* set(user_ids)
IdSet(ids) == {ids[i] : i \in 1..Len(ids)}

\* contacts = set(r.correspondent_id for r in user.records)
ContactsOf(user) == {user.records[i].correspondent_id : i \in 1..Len(user.records)}

AllContacts(us, ids, n) == ContactsOf(us[n])

\* user_contacts[user_id] = contacts & user_id_set
InNetworkContacts(us, ids, n) == ContactsOf(us[n]) \cap IdSet(ids)

\* others_contacts: the union of user_contacts[other_id] for other_id != user_id
OthersContacts(us, ids, n) ==
    UNION {InNetworkContacts(us, ids, m) : m \in {k \in 1..Len(us) : ids[k] # ids[n]}}

\* exclusive = contacts - others_contacts - {user_id}
Exclusive(us, ids, n) ==
    (InNetworkContacts(us, ids, n) \ OthersContacts(us, ids, n)) \ {ids[n]}

\* the dict appended for a bridge; exclusive_contacts still as the set
BridgeEntry(us, ids, n) ==
    [user_id |-> ids[n],
     exclusive_contacts |-> Exclusive(us, ids, n),
     exclusive_count |-> Cardinality(Exclusive(us, ids, n)),
     total_contacts |-> Cardinality(InNetworkContacts(us, ids, n))]

\* for user_id, contacts in user_contacts.items(), from the n-th user on
RECURSIVE FindBridges(_, _, _)
FindBridges(us, ids, n) ==
    IF n > Len(us) THEN <<>>
    ELSE (IF Exclusive(us, ids, n) # {} THEN <<BridgeEntry(us, ids, n)>> ELSE <<>>)
         \o FindBridges(us, ids, n + 1)

SortBridgesKeepOrder(bridges) == bridges

\* bridges.sort(key=lambda x: x['exclusive_count'], reverse=True)
SortBridges(bridges) == StableSortDesc(bridges, "exclusive_count")

\* list(exclusive)
BridgeVariants(entry) ==
    {[entry EXCEPT !.exclusive_contacts = l] : l \in ListsOfSet(entry.exclusive_contacts)}

\* the set of lists identify_bridges can return; user_ids[i] raises IndexError
\* when user_ids is shorter than users
identify_bridges(us, ids) ==
    IF Len(ids) < Len(us) THEN {"IndexError"}
    ELSE LET bridges == SortBridges(FindBridges(us, ids, 1))
         IN  SeqsOfVariants([k \in 1..Len(bridges) |-> BridgeVariants(bridges[k])])

-----------------------------------------------------------------------------
(* network.py: build_communication_matrix *)

MatrixKeyAsOutgoing(id, r) == <<id, r.correspondent_id>>

\* matrix[(user_id, r.correspondent_id)] if r.direction == 'out'
\* else matrix[(r.correspondent_id, user_id)]
MatrixKey(id, r) ==
    IF r.direction = "out" THEN <<id, r.correspondent_id>>
    ELSE <<r.correspondent_id, id>>

\* the keys incremented, one per record, from the n-th user on
RECURSIVE MatrixKeys(_, _, _)
MatrixKeys(us, ids, n) ==
    IF n > Len(us) THEN <<>>
    ELSE [i \in 1..Len(us[n].records) |-> MatrixKey(ids[n], us[n].records[i])]
         \o MatrixKeys(us, ids, n + 1)

\* a defaultdict(int) after += 1 for each key of the sequence
CountKeys(keys) ==
    [k \in {keys[i] : i \in 1..Len(keys)} |->
        Cardinality({i \in 1..Len(keys) : keys[i] = k})]

\* the dict build_communication_matrix returns
build_communication_matrix(us, ids) ==
    IF Len(ids) < Len(us) THEN "IndexError"
    ELSE CountKeys(MatrixKeys(us, ids, 1))

-----------------------------------------------------------------------------
(* network.py: degree_centrality *)

\* results[user_id] for the n-th user; the two lists still as the sets
DegreeEntry(us, ids, n) ==
    LET contacts == ContactsOf(us[n])
    IN  [user_id |-> ids[n],
         total_contacts |-> Cardinality(contacts),
         in_network_contacts |-> Cardinality(contacts \cap IdSet(ids)),
         out_of_network_contacts |-> Cardinality(contacts \ IdSet(ids)),
         in_network_list |-> contacts \cap IdSet(ids),
         out_of_network_list |-> contacts \ IdSet(ids)]

\* the items of results, one per user (the user ids are distinct)
DegreeEntries(us, ids) == [n \in 1..Len(us) |-> DegreeEntry(us, ids, n)]

SortDegreeKeepOrder(entries) == entries

\* sorted(results.items(), key=total_contacts, reverse=True)
SortDegree(entries) == StableSortDesc(entries, "total_contacts")

\* list(in_network), list(out_network)
DegreeVariants(entry) ==
    {[entry EXCEPT !.in_network_list = l1, !.out_of_network_list = l2] :
        l1 \in ListsOfSet(entry.in_network_list),
        l2 \in ListsOfSet(entry.out_of_network_list)}

\* the set of dicts, as item lists, degree_centrality can return
degree_centrality(us, ids) ==
    IF Len(ids) < Len(us) THEN {"IndexError"}
    ELSE LET entries == SortDegree(DegreeEntries(us, ids))
         IN  SeqsOfVariants([k \in 1..Len(entries) |-> DegreeVariants(entries[k])])

-----------------------------------------------------------------------------
(* network.py: shared_contacts *)

\* the key orders contact_to_users can have after users n..: each user's new
\* contacts are appended in the order its set is iterated
RECURSIVE ContactOrders(_, _, _)
ContactOrders(us, n, sofar) ==
    IF n > Len(us) THEN {sofar}
    ELSE UNION {ContactOrders(us, n + 1, sofar \o l) :
                   l \in ListsOfSet(ContactsOf(us[n]) \ {sofar[i] : i \in 1..Len(sofar)})}

\* contact_to_users[contact]: the ids of the users with that contact, in
\* the order of the users
RECURSIVE UsersWith(_, _, _, _)
UsersWith(us, ids, contact, n) ==
    IF n > Len(us) THEN <<>>
    ELSE (IF contact \in ContactsOf(us[n]) THEN <<ids[n]>> ELSE <<>>)
         \o UsersWith(us, ids, contact, n + 1)

SharedByAny(user_list, min_shared) == Len(user_list) >= 1

\* if len(user_list) >= min_shared
SharedByEnough(user_list, min_shared) == Len(user_list) >= min_shared

\* the items of shared for one key order, sorted by len(user_list) descending
SharedItems(us, ids, min_shared, order) ==
    LET items == [k \in 1..Len(order) |->
                     [key |-> Len(UsersWith(us, ids, order[k], 1)),
                      item |-> [contact |-> order[k],
                                user_list |-> UsersWith(us, ids, order[k], 1)]]]
        IsShared(x) == SharedByEnough(x.item.user_list, min_shared)
    IN  SortDescByKey(SelectSeq(items, IsShared))

\* the set of dicts, as item lists, shared_contacts can return
shared_contacts(us, ids, min_shared) ==
    IF Len(ids) < Len(us) THEN {"IndexError"}
    ELSE {SharedItems(us, ids, min_shared, order) : order \in ContactOrders(us, 1, <<>>)}

-----------------------------------------------------------------------------
(* network.py: communication_volume_matrix *)

\* the order of the identifiers as strings
PartyOrder == <<"A", "B", "C", "D">>

Rank(id) == CHOOSE i \in 1..Len(PartyOrder) : PartyOrder[i] = id

PairAsGiven(a, b) == <<a, b>>

\* tuple(sorted([user_id, r.correspondent_id]))
SortedPair(a, b) == IF Rank(b) < Rank(a) THEN <<b, a>> ELSE <<a, b>>

\* the first thing that goes wrong from the n-th user on: user_ids[i] past the
\* end of user_ids, or sorted() comparing None with a string
RECURSIVE PairingError(_, _, _)
PairingError(us, ids, n) ==
    IF n > Len(us) THEN "none"
    ELSE IF n > Len(ids) THEN "IndexError"
    ELSE IF None \in ContactsOf(us[n]) THEN "TypeError"
    ELSE PairingError(us, ids, n + 1)

\* one item per record, in the order the loops visit them, from the n-th user
RECURSIVE PairedRecords(_, _, _)
PairedRecords(us, ids, n) ==
    IF n > Len(us) THEN <<>>
    ELSE [i \in 1..Len(us[n].records) |->
             [pair |-> SortedPair(ids[n], us[n].records[i].correspondent_id),
              record |-> us[n].records[i]]]
         \o PairedRecords(us, ids, n + 1)

\* what one record adds to matrix[pair]['duration']
DurationAdded(r) ==
    IF r.interaction = "call" /\ r.call_duration # <<>> /\ r.call_duration[1] # 0
    THEN r.call_duration[1] ELSE 0

RECURSIVE DurationSum(_, _)
DurationSum(paired, pair) ==
    IF paired = <<>> THEN 0
    ELSE (IF Head(paired).pair = pair THEN DurationAdded(Head(paired).record) ELSE 0)
         + DurationSum(Tail(paired), pair)

\* matrix[pair] after all records
VolumeEntry(paired, pair) ==
    LET mine == {i \in 1..Len(paired) : paired[i].pair = pair}
    IN  [pair |-> pair,
         total |-> Cardinality(mine),
         calls |-> Cardinality({i \in mine : paired[i].record.interaction = "call"}),
         texts |-> Cardinality({i \in mine : paired[i].record.interaction # "call"}),
         duration |-> DurationSum(paired, pair)]

\* the items of matrix in the order its keys were first used
VolumeEntries(paired) ==
    LET keys == FirstAppearances([i \in 1..Len(paired) |-> paired[i].pair])
    IN  [k \in 1..Len(keys) |-> VolumeEntry(paired, keys[k])]

\* sorted(matrix.items(), key=total, reverse=True)
SortVolume(entries) == StableSortDesc(entries, "total")

\* the dict, as an item list, communication_volume_matrix returns
communication_volume_matrix(us, ids) ==
    IF PairingError(us, ids, 1) # "none" THEN PairingError(us, ids, 1)
    ELSE SortVolume(VolumeEntries(PairedRecords(us, ids, 1)))

-----------------------------------------------------------------------------
(* network.py: network_timeline *)

DaySeconds == 24 * 3600

\* time.replace(hour=0, minute=0, second=0, microsecond=0)
Midnight(t) == (t \div DaySeconds) * DaySeconds

NoBucketDelta(time_bucket_hours) == 0

\* timedelta(hours=time_bucket_hours), in seconds
BucketDelta(time_bucket_hours) == time_bucket_hours * 3600

\* all_comms, sorted by time
TimelineComms(us, ids) ==
    LET paired == PairedRecords(us, ids, 1)
    IN  StableSort([i \in 1..Len(paired) |->
                       [datetime |-> paired[i].record.datetime, pair |-> paired[i].pair]],
                   "datetime")

BucketCommsClosed(comms, start, end) ==
    {i \in 1..Len(comms) : start <= comms[i].datetime /\ comms[i].datetime <= end}

\* bucket_comms: the positions of the communications in [start, end)
BucketComms(comms, start, end) ==
    {i \in 1..Len(comms) : start <= comms[i].datetime /\ comms[i].datetime < end}

\* the dict appended for a non-empty bucket; active_pairs still as the set
BucketEntry(comms, start, end) ==
    LET pairs == {comms[i].pair : i \in BucketComms(comms, start, end)}
    IN  [start |-> start, end |-> end,
         active_pairs |-> pairs,
         unique_pair_count |-> Cardinality(pairs),
         total_communications |-> Cardinality(BucketComms(comms, start, end))]

\* while current_start <= all_comms[-1]['time'], for a positive bucket_delta
RECURSIVE Buckets(_, _, _)
Buckets(comms, start, delta) ==
    IF start > comms[Len(comms)].datetime THEN <<>>
    ELSE (IF BucketComms(comms, start, start + delta) # {}
          THEN <<BucketEntry(comms, start, start + delta)>> ELSE <<>>)
         \o Buckets(comms, start + delta, delta)

\* list(set(c['pair'] for c in bucket_comms))
BucketVariants(entry) ==
    {[entry EXCEPT !.active_pairs = l] : l \in ListsOfSet(entry.active_pairs)}

\* how a call of network_timeline ends: with an error, with a list, or, when
\* bucket_delta is zero and there are communications, never
TimelineOutcome(us, ids, time_bucket_hours) ==
    IF PairingError(us, ids, 1) # "none" THEN PairingError(us, ids, 1)
    ELSE IF TimelineComms(us, ids) # <<>> /\ BucketDelta(time_bucket_hours) = 0
         THEN "no return"
    ELSE "network_timeline"

\* the set of lists network_timeline can return
network_timeline(us, ids, time_bucket_hours) ==
    IF TimelineOutcome(us, ids, time_bucket_hours) # "network_timeline"
    THEN {TimelineOutcome(us, ids, time_bucket_hours)}
    ELSE IF TimelineComms(us, ids) = <<>> THEN {<<>>}
    ELSE LET buckets == Buckets(TimelineComms(us, ids),
                                Midnight(TimelineComms(us, ids)[1].datetime),
                                BucketDelta(time_bucket_hours))
         IN  SeqsOfVariants([k \in 1..Len(buckets) |-> BucketVariants(buckets[k])])

-----------------------------------------------------------------------------
(* The caller *)

\* the number of records of users[n..]
RECURSIVE TotalRecords(_, _)
TotalRecords(us, n) ==
    IF n > Len(us) THEN 0 ELSE Len(us[n].records) + TotalRecords(us, n + 1)

\* the caller appends record r, of a contact with another party, to user u's
\* record list
AddRecord(R, max) ==
    /\ pc = "input"
    /\ TotalRecords(users, 1) < max
    /\ \E u \in 1..Len(users), r \in R :
           /\ r.correspondent_id # user_ids[u]
           /\ users' = [users EXCEPT ![u].records = Append(@, r)]
    /\ UNCHANGED <<user_ids, window, param, result, previous, timeline, current_start, pc>>

\* result = antenna_overlap(users[0], users[1], window)
CallAntennaOverlap ==
    /\ pc = "input"
    /\ Len(users) >= 2
    /\ result' = antenna_overlap(users[1], users[2], window)
    /\ pc' = "antenna_overlap"
    /\ UNCHANGED <<users, user_ids, window, param, previous, timeline, current_start>>

\* two users without records; both know where the places are
InitOverlap ==
    /\ users = <<User(<<>>, Table(Places, "here")), User(<<>>, Table(Places, "here"))>>
    /\ user_ids = <<"A", "B">>
    /\ window \in Windows
    /\ param = 0
    /\ result = <<>>
    /\ previous = <<>>
    /\ timeline = <<>>
    /\ current_start = 0
    /\ pc = "input"

NextOverlap ==
    \/ AddRecord(LocationRecords, MaxPairRecords)
    \/ CallAntennaOverlap

SpecOverlap == InitOverlap /\ [][NextOverlap]_vars

\* the records whose place decides the coordinate: one instant, any tag but ""
CoordRecords == {Rec(0, tag, "out", None) : tag \in {None} \cup Places}

\* two users without records; each antenna table knows any subset of the places
InitCoord ==
    /\ \E SA \in SUBSET Places, SB \in SUBSET Places :
           users = <<User(<<>>, Table(SA, "coordA")), User(<<>>, Table(SB, "coordB"))>>
    /\ user_ids = <<"A", "B">>
    /\ window \in Windows
    /\ param = 0
    /\ result = <<>>
    /\ previous = <<>>
    /\ timeline = <<>>
    /\ current_start = 0
    /\ pc = "input"

NextCoord ==
    \/ AddRecord(CoordRecords, MaxPairRecords)
    \/ CallAntennaOverlap

SpecCoord == InitCoord /\ [][NextCoord]_vars

\* 10:00:00, 10:05:00 and 10:40:00 as seconds of the day
T1000 == 10 * 3600

T1005 == 10 * 3600 + 5 * 60

T1040 == 10 * 3600 + 40 * 60

\* the scenario's window, in minutes: W = 30 min, the default window_minutes
ScenarioWindow == 30

\* sequence s with x put in at position k
InsertAt(s, k, x) == SubSeq(s, 1, k - 1) \o <<x>> \o SubSeq(s, k, Len(s))

\* a record the scenario leaves open: at one of its instants, and nowhere or at
\* a place that only its owner visits
OpenRecords(place) ==
    {Rec(t, tag, "out", None) : t \in {T1000, T1005, T1040}, tag \in {None, Empty, place}}

\* spec 8, concrete scenario: two entities with 3 records each, in any list
\* order; A at T1 at 10:00:00 and 10:40:00, B at T1 at 10:05:00, W = 30 min
InitScenario ==
    /\ \E xa \in OpenRecords("T2"), yb \in OpenRecords("T3"), zb \in OpenRecords("T3"),
          ka \in 1..3, kb \in 1..2, kc \in 1..3, swap \in BOOLEAN :
           LET a1 == Rec(T1000, "T1", "out", None)
               a2 == Rec(T1040, "T1", "out", None)
               b1 == Rec(T1005, "T1", "out", None)
               ra == InsertAt(IF swap THEN <<a2, a1>> ELSE <<a1, a2>>, ka, xa)
               rb == InsertAt(InsertAt(<<b1>>, kb, yb), kc, zb)
           IN users = <<User(ra, Table({"T1"}, "here")), User(rb, Table({"T1"}, "here"))>>
    /\ user_ids = <<"A", "B">>
    /\ window = ScenarioWindow
    /\ param = 0
    /\ result = <<>>
    /\ previous = <<>>
    /\ timeline = <<>>
    /\ current_start = 0
    /\ pc = "input"

SpecScenario == InitScenario /\ [][CallAntennaOverlap]_vars

\* result = multi_user_colocation(users, window)
CallMultiUserColocation ==
    /\ pc = "input"
    /\ result' = multi_user_colocation(users, window)
    /\ pc' = "multi_user_colocation"
    /\ UNCHANGED <<users, user_ids, window, param, previous, timeline, current_start>>

\* the records the clusterer tells apart: a record without antenna is dropped
\* before its datetime is read, so one instant stands for all of them
GroupRecords ==
    {Rec(t, tag, "out", None) : t \in Times, tag \in Places} \cup {Rec(0, None, "out", None)}

\* three users without records
InitGroup ==
    /\ users = [n \in 1..3 |-> User(<<>>, Table(Places, "here"))]
    /\ user_ids = <<"A", "B", "C">>
    /\ window \in Windows
    /\ param = 0
    /\ result = <<>>
    /\ previous = <<>>
    /\ timeline = <<>>
    /\ current_start = 0
    /\ pc = "input"

NextGroup ==
    \/ AddRecord(GroupRecords, MaxGroupRecords)
    \/ CallMultiUserColocation

SpecGroup == InitGroup /\ [][NextGroup]_vars

\* result = communication_chains(users, user_ids, window)
CallCommunicationChains ==
    /\ pc = "input"
    /\ result' = communication_chains(users, user_ids, window)
    /\ pc' = IF Len(user_ids) < Len(users) THEN "IndexError" ELSE "communication_chains"
    /\ UNCHANGED <<users, user_ids, window, param, previous, timeline, current_start>>

\* the parties of the network: the modeled entities and an outside contact
Parties == {"A", "B", "C", "D"}

\* the records the chain detector tells apart: an incoming record is dropped
\* before its datetime and correspondent are read, so one stands for all of them
ChainRecords ==
    {Rec(t, None, "out", c) : t \in Times, c \in Parties} \cup {Rec(0, None, "in", "D")}

\* users A, B and C without records; D is a contact of theirs that is not modeled
InitChains ==
    /\ users = [n \in 1..3 |-> User(<<>>, Table({}, None))]
    /\ user_ids = <<"A", "B", "C">>
    /\ window \in Windows
    /\ param = 0
    /\ result = <<>>
    /\ previous = <<>>
    /\ timeline = <<>>
    /\ current_start = 0
    /\ pc = "input"

NextChains ==
    \/ AddRecord(ChainRecords, MaxChainRecords)
    \/ CallCommunicationChains

SpecChains == InitChains /\ [][NextChains]_vars

\* the chain scenario's window: 600 s, in minutes
ChainScenarioWindow == 600 \div 60

\* what the chain scenario leaves open for one user: no further record, or one
\* incoming record at one of the scenario's instants, before or after its own
OpenIncoming(id, out, t0) ==
    {<<out>>} \cup
    UNION {{<<Rec(t, None, "in", c), out>>, <<out, Rec(t, None, "in", c)>>} :
               t \in {t0, t0 + 300, t0 + 4000}, c \in Parties \ {id}}

\* spec 8, chain correctness: A -> B at t0, B -> C at t0 + 300 s,
\* C -> D at t0 + 4000 s, W = 600 s
InitChainScenario ==
    /\ \E t0 \in {0, 1000} :
       \E ra \in OpenIncoming("A", Rec(t0, None, "out", "B"), t0),
          rb \in OpenIncoming("B", Rec(t0 + 300, None, "out", "C"), t0),
          rc \in OpenIncoming("C", Rec(t0 + 4000, None, "out", "D"), t0) :
           users = <<User(ra, Table({}, None)), User(rb, Table({}, None)),
                     User(rc, Table({}, None))>>
    /\ user_ids = <<"A", "B", "C">>
    /\ window = ChainScenarioWindow
    /\ param = 0
    /\ result = <<>>
    /\ previous = <<>>
    /\ timeline = <<>>
    /\ current_start = 0
    /\ pc = "input"

SpecChainScenario == InitChainScenario /\ [][CallCommunicationChains]_vars

\* result = identify_bridges(users, user_ids)
CallIdentifyBridges ==
    /\ pc = "input"
    /\ result' \in identify_bridges(users, user_ids)
    /\ pc' = IF Len(user_ids) < Len(users) THEN "IndexError" ELSE "identify_bridges"
    /\ UNCHANGED <<users, user_ids, window, param, previous, timeline, current_start>>

\* result = build_communication_matrix(users, user_ids)
CallBuildCommunicationMatrix ==
    /\ pc = "input"
    /\ result' = build_communication_matrix(users, user_ids)
    /\ pc' = IF Len(user_ids) < Len(users) THEN "IndexError"
             ELSE "build_communication_matrix"
    /\ UNCHANGED <<users, user_ids, window, param, previous, timeline, current_start>>

\* the records the contact aggregators tell apart: they read the direction
\* and the correspondent
NetworkRecords == {Rec(0, None, dir, c) : dir \in {"in", "out"}, c \in Parties}

\* users A, B and C without records; D is a contact of theirs that is not modeled
InitNetwork ==
    /\ users = [n \in 1..3 |-> User(<<>>, Table({}, None))]
    /\ user_ids = <<"A", "B", "C">>
    /\ window = 0
    /\ param = 0
    /\ result = <<>>
    /\ previous = <<>>
    /\ timeline = <<>>
    /\ current_start = 0
    /\ pc = "input"

NextNetwork ==
    \/ AddRecord(NetworkRecords, MaxNetworkRecords)
    \/ CallIdentifyBridges
    \/ CallBuildCommunicationMatrix

SpecNetwork == InitNetwork /\ [][NextNetwork]_vars

\* min_sequence_length values
MinSequenceLengths == {2, 3}

\* result = travel_pattern_match(users[0], users[1], window, m)
CallTravelPatternMatch ==
    /\ pc = "input"
    /\ Len(users) >= 2
    /\ \E m \in MinSequenceLengths :
           /\ param' = m
           /\ result' = travel_pattern_match(users[1], users[2], window, m)
    /\ users' = [n \in 1..Len(users) |->
                    IF n <= 2 THEN [users[n] EXCEPT !.records = RecordsAfterSorted(users[n])]
                    ELSE users[n]]
    /\ pc' = "travel_pattern_match"
    /\ UNCHANGED <<user_ids, window, previous, timeline, current_start>>

\* the records travel_pattern_match tells apart: it drops a record without a
\* place before reading its time
TravelRecords ==
    {Rec(t, tag, "out", None) : t \in Times, tag \in Places}
        \cup {Rec(0, None, "out", None), Rec(0, Empty, "out", None)}

InitTravel ==
    /\ users = <<User(<<>>, Table(Places, "here")), User(<<>>, Table(Places, "here"))>>
    /\ user_ids = <<"A", "B">>
    /\ window \in Windows
    /\ param = 0
    /\ result = <<>>
    /\ previous = <<>>
    /\ timeline = <<>>
    /\ current_start = 0
    /\ pc = "input"

NextTravel ==
    \/ AddRecord(TravelRecords, MaxTravelRecords)
    \/ CallTravelPatternMatch

SpecTravel == InitTravel /\ [][NextTravel]_vars

\* the caller appends record r to user u's record list, up to max records
AddRecordTo(u, R, max) ==
    /\ pc = "input"
    /\ Len(users[u].records) < max
    /\ \E r \in R : users' = [users EXCEPT ![u].records = Append(@, r)]
    /\ UNCHANGED <<user_ids, window, param, result, previous, timeline, current_start, pc>>

\* gap_threshold_minutes values
Gaps == Windows

\* result = meeting_detection(users[0], users[1], window, g)
CallMeetingDetection ==
    /\ pc = "input"
    /\ Len(users) >= 2
    /\ \E g \in Gaps :
           /\ param' = g
           /\ result' = meeting_detection(users[1], users[2], window, g)
    /\ pc' = "meeting_detection"
    /\ UNCHANGED <<users, user_ids, window, previous, timeline, current_start>>

\* A's records: at the place or without one, now or a minute later
MeetingRecordsA == {Rec(0, None, "out", "B"), Rec(0, "T1", "out", "B"), Rec(60, "T1", "out", "B")}

\* B's records: at the place
MeetingRecordsB == {Rec(0, "T1", "out", "A"), Rec(60, "T1", "out", "A")}

InitMeeting ==
    /\ users = <<User(<<>>, Table(Places, "here")), User(<<>>, Table(Places, "here"))>>
    /\ user_ids = <<"A", "B">>
    /\ window \in Windows
    /\ param = 0
    /\ result = <<>>
    /\ previous = <<>>
    /\ timeline = <<>>
    /\ current_start = 0
    /\ pc = "input"

\* A is busy, B is seen once
NextMeeting ==
    \/ AddRecordTo(1, MeetingRecordsA, MaxMeetingRecords)
    \/ AddRecordTo(2, MeetingRecordsB, 1)
    \/ CallMeetingDetection

SpecMeeting == InitMeeting /\ [][NextMeeting]_vars

MaxOneSidedRecords == 4

\* records of B without a place: contacts with A, sent or received
UnlocatedRecordsB == {Rec(0, None, "out", "A"), Rec(60, None, "in", "A")}

\* A holds a few records, B is seen once or is in contact with A once
NextOneSided ==
    \/ AddRecordTo(1, MeetingRecordsA, MaxOneSidedRecords)
    \/ AddRecordTo(2, MeetingRecordsB \cup UnlocatedRecordsB, 1)
    \/ CallMeetingDetection

SpecOneSided == InitMeeting /\ [][NextOneSided]_vars

\* result = degree_centrality(users, user_ids)
CallDegreeCentrality ==
    /\ pc = "input"
    /\ result' \in degree_centrality(users, user_ids)
    /\ pc' = IF Len(user_ids) < Len(users) THEN "IndexError" ELSE "degree_centrality"
    /\ UNCHANGED <<users, user_ids, window, param, previous, timeline, current_start>>

\* min_shared values
MinShared == {1, 2, 3}

\* result = shared_contacts(users, user_ids, m)
CallSharedContacts ==
    /\ pc = "input"
    /\ \E m \in MinShared :
           /\ param' = m
           /\ result' \in shared_contacts(users, user_ids, m)
    /\ pc' = IF Len(user_ids) < Len(users) THEN "IndexError" ELSE "shared_contacts"
    /\ UNCHANGED <<users, user_ids, window, previous, timeline, current_start>>

\* result = communication_volume_matrix(users, user_ids)
CallCommunicationVolumeMatrix ==
    /\ pc = "input"
    /\ result' = communication_volume_matrix(users, user_ids)
    /\ pc' = IF PairingError(users, user_ids, 1) # "none"
             THEN PairingError(users, user_ids, 1)
             ELSE "communication_volume_matrix"
    /\ UNCHANGED <<users, user_ids, window, param, previous, timeline, current_start>>

\* time_bucket_hours values
BucketHours == {0, 1, 24}

\* result = network_timeline(users, user_ids, h)
CallNetworkTimeline ==
    /\ pc = "input"
    /\ \E h \in BucketHours :
           /\ param' = h
           /\ result' \in network_timeline(users, user_ids, h)
           /\ pc' = TimelineOutcome(users, user_ids, h)
    /\ UNCHANGED <<users, user_ids, window, previous, timeline, current_start>>

\* records of which some name no correspondent
NullRecords == {Rec(0, None, dir, c) : dir \in {"in", "out"}, c \in {None, "A", "B", "C"}}

\* users A, B and C without records
InitNull ==
    /\ users = [n \in 1..3 |-> User(<<>>, Table({}, None))]
    /\ user_ids = <<"A", "B", "C">>
    /\ window = 0
    /\ param = 0
    /\ result = <<>>
    /\ previous = <<>>
    /\ timeline = <<>>
    /\ current_start = 0
    /\ pc = "input"

NextNull ==
    \/ AddRecord(NullRecords, MaxNullRecords)
    \/ CallBuildCommunicationMatrix
    \/ CallDegreeCentrality
    \/ CallSharedContacts
    \/ CallCommunicationVolumeMatrix
    \/ CallCommunicationChains

SpecNull == InitNull /\ [][NextNull]_vars

\* the names of the indicators that take two users
PairIndicators == {"antenna_overlap", "travel_pattern_match", "meeting_detection"}

\* the names of the indicators that take the list of users
ListIndicators ==
    {"multi_user_colocation", "communication_chains", "identify_bridges",
     "build_communication_matrix", "degree_centrality", "shared_contacts",
     "communication_volume_matrix", "network_timeline"}

\* the values a call of indicator f on the present input, with the present
\* settings, can return
ResultsOf(f) ==
    CASE f = "antenna_overlap" -> {antenna_overlap(users[1], users[2], window)}
      [] f = "travel_pattern_match" ->
             {travel_pattern_match(users[1], users[2], window, param)}
      [] f = "meeting_detection" -> {meeting_detection(users[1], users[2], window, param)}
      [] f = "multi_user_colocation" -> {multi_user_colocation(users, window)}
      [] f = "communication_chains" -> {communication_chains(users, user_ids, window)}
      [] f = "identify_bridges" -> identify_bridges(users, user_ids)
      [] f = "build_communication_matrix" -> {build_communication_matrix(users, user_ids)}
      [] f = "degree_centrality" -> degree_centrality(users, user_ids)
      [] f = "shared_contacts" -> shared_contacts(users, user_ids, param)
      [] f = "communication_volume_matrix" ->
             {communication_volume_matrix(users, user_ids)}
      [] f = "network_timeline" -> network_timeline(users, user_ids, param)

\* the caller makes the call that has just returned once more, on the same
\* input, in a fresh run of the program
RunAgain ==
    /\ pc \in PairIndicators \cup ListIndicators
    /\ previous = <<>>
    /\ previous' = <<result>>
    /\ result' \in ResultsOf(pc)
    /\ UNCHANGED <<users, user_ids, window, param, timeline, current_start, pc>>

\* the records that tell every indicator's cases apart: early or late, at a
\* place or not, to B or to C
AnyRecords ==
    {FullRec(t, "T1", "out", c, "call", <<>>) : t \in {0, 40}, c \in {"B", "C"}}
        \cup {FullRec(0, None, "out", "B", "call", <<>>)}

\* the first n of the users A, B and C, without records, with their own
\* identifiers or with all three
InitAny ==
    /\ \E n \in 0..3 :
           /\ users = [k \in 1..n |-> User(<<>>, Table(Places, "here"))]
           /\ user_ids \in {SubSeq(<<"A", "B", "C">>, 1, n), <<"A", "B", "C">>}
    /\ window = MaxWindow
    /\ param = 0
    /\ result = <<>>
    /\ previous = <<>>
    /\ timeline = <<>>
    /\ current_start = 0
    /\ pc = "input"

NextAny ==
    \/ AddRecord(AnyRecords, MaxAnyRecords)
    \/ CallAntennaOverlap
    \/ CallTravelPatternMatch
    \/ CallMeetingDetection
    \/ CallMultiUserColocation
    \/ CallCommunicationChains
    \/ CallIdentifyBridges
    \/ CallBuildCommunicationMatrix
    \/ CallDegreeCentrality
    \/ CallSharedContacts
    \/ CallCommunicationVolumeMatrix
    \/ CallNetworkTimeline
    \/ RunAgain

SpecAny == InitAny /\ [][NextAny]_vars

\* the records the contact-set aggregators tell apart: they read the
\* correspondent only
ContactRecords == {Rec(0, None, "out", c) : c \in Parties}

\* users A, B and C without records; D is a contact that is not modeled
InitContacts ==
    /\ users = [n \in 1..3 |-> User(<<>>, Table({}, None))]
    /\ user_ids = <<"A", "B", "C">>
    /\ window = 0
    /\ param = 0
    /\ result = <<>>
    /\ previous = <<>>
    /\ timeline = <<>>
    /\ current_start = 0
    /\ pc = "input"

NextContacts ==
    \/ AddRecord(ContactRecords, MaxContactRecords)
    \/ CallDegreeCentrality
    \/ CallSharedContacts

SpecContacts == InitContacts /\ [][NextContacts]_vars

\* the records the volume matrix tells apart: a text, a call without a
\* duration and a call of five seconds, with A, B or the outside contact C
VolumeRecords ==
    {FullRec(0, None, "out", c, "text", <<>>) : c \in {"A", "B", "C"}}
        \cup {FullRec(0, None, "out", c, "call", d) : c \in {"A", "B", "C"}, d \in {<<>>, <<5>>}}

\* users A and B without records
InitVolume ==
    /\ users = [n \in 1..2 |-> User(<<>>, Table({}, None))]
    /\ user_ids = <<"A", "B">>
    /\ window = 0
    /\ param = 0
    /\ result = <<>>
    /\ previous = <<>>
    /\ timeline = <<>>
    /\ current_start = 0
    /\ pc = "input"

NextVolume ==
    \/ AddRecord(VolumeRecords, MaxVolumeRecords)
    \/ CallCommunicationVolumeMatrix

SpecVolume == InitVolume /\ [][NextVolume]_vars

\* times on both sides of an hour's border, later the same day, and the
\* next day
TimelineTimes == {3600 - 1, 3600, 3 * 3600, 25 * 3600}

\* the records network_timeline tells apart: it reads the time and the
\* correspondent
TimelineRecords == {Rec(t, None, "out", c) : t \in TimelineTimes, c \in {"A", "B", "C"}}

\* users A and B without records
InitTimeline ==
    /\ users = [n \in 1..2 |-> User(<<>>, Table({}, None))]
    /\ user_ids = <<"A", "B">>
    /\ window = 0
    /\ param = 0
    /\ result = <<>>
    /\ previous = <<>>
    /\ timeline = <<>>
    /\ current_start = 0
    /\ pc = "input"

NextTimeline ==
    \/ AddRecord(TimelineRecords, MaxTimelineRecords)
    \/ CallNetworkTimeline

SpecTimeline == InitTimeline /\ [][NextTimeline]_vars

\* network_timeline(users, user_ids, h) up to its loop: the communications
\* are collected and sorted, and the first bucket starts at midnight
EnterNetworkTimeline ==
    /\ pc = "input"
    /\ \E h \in BucketHours : param' = h
    /\ IF PairingError(users, user_ids, 1) # "none"
       THEN /\ pc' = PairingError(users, user_ids, 1)
            /\ result' = PairingError(users, user_ids, 1)
            /\ UNCHANGED <<timeline, current_start>>
       ELSE IF TimelineComms(users, user_ids) = <<>>
       THEN /\ pc' = "network_timeline"
            /\ result' = <<>>
            /\ UNCHANGED <<timeline, current_start>>
       ELSE /\ pc' = "network_timeline.while"
            /\ result' = <<>>
            /\ timeline' = TimelineComms(users, user_ids)
            /\ current_start' = Midnight(TimelineComms(users, user_ids)[1].datetime)
    /\ UNCHANGED <<users, user_ids, window, previous>>

\* one pass of the while loop: the bucket from current_start is appended if
\* it is not empty, and current_start moves on by bucket_delta
StepNetworkTimeline ==
    /\ pc = "network_timeline.while"
    /\ current_start <= timeline[Len(timeline)].datetime
    /\ IF BucketComms(timeline, current_start, current_start + BucketDelta(param)) # {}
       THEN \E b \in BucketVariants(BucketEntry(timeline, current_start,
                                                current_start + BucketDelta(param))) :
                result' = Append(result, b)
       ELSE result' = result
    /\ current_start' = current_start + BucketDelta(param)
    /\ UNCHANGED <<users, user_ids, window, param, previous, timeline, pc>>

\* the loop condition fails: return buckets
ReturnNetworkTimeline ==
    /\ pc = "network_timeline.while"
    /\ current_start > timeline[Len(timeline)].datetime
    /\ pc' = "network_timeline"
    /\ UNCHANGED <<users, user_ids, window, param, result, previous, timeline,
                   current_start>>

NextTimelineLoop ==
    \/ AddRecord(TimelineRecords, MaxLoopRecords)
    \/ EnterNetworkTimeline
    \/ StepNetworkTimeline
    \/ ReturnNetworkTimeline

SpecTimelineLoop == InitTimeline /\ [][NextTimelineLoop]_vars

\* a call that has been made keeps running: the loop takes its next pass, or
\* returns, when it can
SpecTimelineLoopFair ==
    /\ SpecTimelineLoop
    /\ WF_vars(StepNetworkTimeline)
    /\ WF_vars(ReturnNetworkTimeline)

-----------------------------------------------------------------------------
(* Claims about antenna_overlap *)

\* a location tag that is unset or empty (spec 3: "unset/empty" is no location)
NullTag(tag) == tag \in {None, Empty}

RecsA == users[1].records

RecsB == users[2].records

\* the pairs (i, j) of a record of A and a record of B that share a non-null tag
\* and lie within w minutes of each other
QualifyingPairs(w) ==
    {p \in (1..Len(RecsA)) \X (1..Len(RecsB)) :
        /\ ~NullTag(RecsA[p[1]].antenna)
        /\ ~NullTag(RecsB[p[2]].antenna)
        /\ RecsA[p[1]].antenna = RecsB[p[2]].antenna
        /\ Abs(RecsA[p[1]].datetime - RecsB[p[2]].datetime) <= w * 60}

PairOf(p) ==
    <<RecsA[p[1]].antenna, RecsA[p[1]].datetime, RecsB[p[2]].datetime>>

EntryOf(e) == <<e.antenna_id, e.user_a_time, e.user_b_time>>

\* the (A time, B time) pairs of a list of overlaps
TimePairs(overlaps) ==
    {<<overlaps[k].user_a_time, overlaps[k].user_b_time>> : k \in 1..Len(overlaps)}

SetOf(s) == {s[k] : k \in 1..Len(s)}

\* C1: antenna_overlap returns exactly one result for every pair (ra, rb) of a
\* record of A and a record of B whose tags are both non-null and equal and
\* whose times differ by at most W seconds, and no other result; a record with
\* a null tag appears in no result.
C1_ExactlyTheQualifyingPairs ==
    pc = "antenna_overlap" =>
        /\ Len(result) = Cardinality(QualifyingPairs(window))
        /\ \A p \in QualifyingPairs(window) :
               Cardinality({k \in 1..Len(result) : EntryOf(result[k]) = PairOf(p)})
                 = Cardinality({q \in QualifyingPairs(window) : PairOf(q) = PairOf(p)})
        /\ \A k \in 1..Len(result) :
               /\ ~NullTag(result[k].antenna_id)
               /\ result[k].delta_seconds
                    = Abs(result[k].user_a_time - result[k].user_b_time)

\* a call that reported a pair although A also holds a record without a place
C1_Witness ==
    /\ pc = "antenna_overlap"
    /\ Len(result) = 1
    /\ Len(RecsA) = 2
    /\ Len(RecsB) = 1
    /\ \E i \in 1..2 : NullTag(RecsA[i].antenna)

\* C2: symmetry: the (A time, B time) pairs of antenna_overlap(A, B, W) are the
\* pairs of antenna_overlap(B, A, W) with the two roles swapped.
C2_Symmetry ==
    pc = "antenna_overlap" =>
        TimePairs(result)
          = {<<q[2], q[1]>> : q \in TimePairs(antenna_overlap(users[2], users[1], window))}

\* a call that reported a pair whose two times differ
C2_Witness ==
    /\ pc = "antenna_overlap"
    /\ \E k \in 1..Len(result) : result[k].user_a_time < result[k].user_b_time
    /\ \E k \in 1..Len(result) : result[k].user_a_time > result[k].user_b_time

\* C3: window monotonicity: every overlap reported with window W1 is reported
\* with every larger window W2.
C3_WindowMonotonic ==
    pc = "antenna_overlap" =>
        \A w2 \in (window + 1)..(MaxWindow + 1) :
            SetOf(result) \subseteq SetOf(antenna_overlap(users[1], users[2], w2))

\* a call with a window that a larger window extends by a further overlap
C3_Witness ==
    /\ pc = "antenna_overlap"
    /\ Len(result) >= 1
    /\ \E w2 \in (window + 1)..(MaxWindow + 1) :
           SetOf(antenna_overlap(users[1], users[2], w2)) # SetOf(result)

\* C4: the returned list is in ascending order of user_a_time, whatever the
\* order of the records in the input collections.
C4_SortedByATime ==
    pc = "antenna_overlap" =>
        \A k \in 1..(Len(result) - 1) :
            result[k].user_a_time <= result[k + 1].user_a_time

\* a call on records of A that are not in time order, both of which overlap
C4_Witness ==
    /\ pc = "antenna_overlap"
    /\ Len(RecsA) >= 2
    /\ RecsA[1].datetime > RecsA[2].datetime
    /\ \E k \in 1..(Len(result) - 1) :
           /\ result[k].user_a_time = RecsA[2].datetime
           /\ result[k + 1].user_a_time = RecsA[1].datetime

\* C5: each result carries the coordinate of its place whenever either table
\* knows the place: A's entry if A's table has the tag, otherwise B's entry;
\* the coordinate is absent only when neither table has the tag.
C5_CoordinateFromEitherTable ==
    pc = "antenna_overlap" =>
        \A k \in 1..Len(result) :
            LET tag == result[k].antenna_id
            IN result[k].coordinates =
                   IF tag \in DOMAIN users[1].antennas THEN users[1].antennas[tag]
                   ELSE IF tag \in DOMAIN users[2].antennas THEN users[2].antennas[tag]
                   ELSE None

\* C6: A at T1 at 10:00:00 and 10:40:00, B at T1 at 10:05:00, W = 30 minutes:
\* exactly one pair, 10:00:00 / 10:05:00 with delta 300 s, and no result for
\* the 10:40:00 record.
C6_ScenarioOnePair ==
    pc = "antenna_overlap" =>
        /\ Len(result) = 1
        /\ result[1].antenna_id = "T1"
        /\ result[1].user_a_time = T1000
        /\ result[1].user_b_time = T1005
        /\ result[1].delta_seconds = 300
        /\ \A k \in 1..Len(result) : result[k].user_a_time # T1040

\* the scenario after the call, with A's records out of time order and an open
\* record of B at the instant of A's 10:40:00 record
C6_Witness ==
    /\ pc = "antenna_overlap"
    /\ window = ScenarioWindow
    /\ Len(RecsA) = 3 /\ Len(RecsB) = 3
    /\ RecsA[1] = Rec(T1040, "T1", "out", None)
    /\ \E j \in 1..3 : RecsB[j].datetime = T1040
    /\ Len(result) = 1

-----------------------------------------------------------------------------
(* Claims about multi_user_colocation *)

\* C7: cluster minimum: every returned cluster has at least 3 distinct entity
\* indices in user_indices, and participant_count is the number of distinct
\* entities in it.
C7_ClusterMinimum ==
    pc = "multi_user_colocation" =>
        \A k \in 1..Len(result) :
            /\ Cardinality(SetOf(result[k].user_indices)) >= 3
            /\ result[k].participant_count = Cardinality(SetOf(result[k].user_indices))
            /\ Len(result[k].user_indices) = result[k].participant_count

\* a call that returned one cluster while some user was also seen at another place
C7_Witness ==
    /\ pc = "multi_user_colocation"
    /\ Len(result) = 1
    /\ \E u \in 1..Len(users) : \E i \in 1..Len(users[u].records) :
           /\ Truthy(users[u].records[i].antenna)
           /\ users[u].records[i].antenna # result[1].antenna

\* the entities (0-based) with a hit at tag in the interval [from, from + w minutes]
EntitiesAt(tag, from, w) ==
    {u - 1 : u \in {v \in 1..Len(users) :
        \E i \in 1..Len(users[v].records) :
            /\ users[v].records[i].antenna = tag
            /\ users[v].records[i].datetime >= from
            /\ users[v].records[i].datetime <= from + w * 60}}

\* C8: cluster completeness: for any located hit h at tag L, if at least three
\* distinct entities have a hit at L in [h.time, h.time + W], the result holds
\* a cluster at L whose participants include every entity with a hit at L in
\* that interval.
C8_ClusterCompleteness ==
    pc = "multi_user_colocation" =>
        \A u \in 1..Len(users) : \A i \in 1..Len(users[u].records) :
            LET h == users[u].records[i]
                here == EntitiesAt(h.antenna, h.datetime, window)
            IN (~NullTag(h.antenna) /\ Cardinality(here) >= 3) =>
                   \E k \in 1..Len(result) :
                       /\ result[k].antenna = h.antenna
                       /\ here \subseteq SetOf(result[k].user_indices)

\* a call on a hit that three entities follow within the window, where the
\* hit is not the first of its instant in the timeline and one detection of
\* the gathering was dropped as a duplicate
C8_Witness ==
    /\ pc = "multi_user_colocation"
    /\ Len(result) = 1
    /\ \E u \in 2..Len(users) : \E i \in 1..Len(users[u].records) :
           LET h == users[u].records[i]
           IN /\ Truthy(h.antenna)
              /\ Cardinality(EntitiesAt(h.antenna, h.datetime, window)) >= 3
              /\ \E j \in 1..Len(users[1].records) :
                     /\ users[1].records[j].antenna = h.antenna
                     /\ users[1].records[j].datetime = h.datetime
    /\ Len(FindClusters(SortHits(CollectHits(users, 1)), 1, WindowSeconds(window))) = 2

-----------------------------------------------------------------------------
(* Claims about communication_chains *)

\* the outgoing records, each named by its user and its position in the list
OutEvents ==
    {e \in UNION {{<<u, i>> : i \in 1..Len(users[u].records)} : u \in 1..Len(users)} :
        users[e[1]].records[e[2]].direction = "out"}

EventRec(e) == users[e[1]].records[e[2]]

\* e2 stands after e1 in the timeline sorted by time: it is later, or as late
\* and after e1 in the enumeration of the users and their records
After(e1, e2) ==
    \/ EventRec(e2).datetime > EventRec(e1).datetime
    \/ /\ EventRec(e2).datetime = EventRec(e1).datetime
       /\ \/ e2[1] > e1[1]
          \/ e2[1] = e1[1] /\ e2[2] > e1[2]

\* the pairs (e1, e2) of outgoing events that form a chain within w minutes
ChainPairs(w) ==
    {q \in OutEvents \X OutEvents :
        /\ After(q[1], q[2])
        /\ EventRec(q[2]).datetime - EventRec(q[1]).datetime <= w * 60
        /\ EventRec(q[1]).correspondent_id = user_ids[q[2][1]]}

\* the chain (e1.from, e1.to, e2.to) of a pair, with its two times
ChainOf(q) ==
    <<<<user_ids[q[1][1]], EventRec(q[1]).correspondent_id, EventRec(q[2]).correspondent_id>>,
      <<EventRec(q[1]).datetime, EventRec(q[2]).datetime>>>>

\* C9: communication_chains reports exactly one chain (e1.from, e1.to, e2.to)
\* for every pair of outgoing events e1, e2 of the time-sorted timeline with e2
\* after e1, 0 <= e2.time - e1.time <= W and e1.to = e2.from, and nothing else:
\* one chain per qualifying e2, and none from a record with direction 'in'.
C9_ExactlyTheChains ==
    pc = "communication_chains" =>
        /\ Len(result) = Cardinality(ChainPairs(window))
        /\ \A q \in ChainPairs(window) :
               Cardinality({k \in 1..Len(result) :
                               <<result[k].sequence, result[k].times>> = ChainOf(q)})
                 = Cardinality({r \in ChainPairs(window) : ChainOf(r) = ChainOf(q)})
        /\ \A k \in 1..Len(result) :
               /\ result[k].total_time_seconds = result[k].times[2] - result[k].times[1]
               /\ result[k].total_time_seconds >= 0

\* a call in which one outgoing event starts two chains
C9_Witness ==
    /\ pc = "communication_chains"
    /\ Len(result) = 2
    /\ result[1].a_to_b = result[2].a_to_b
    /\ result[1].b_to_c # result[2].b_to_c

\* C10: chain correctness: for A -> B at t0, B -> C at t0 + 300 s and
\* C -> D at t0 + 4000 s with W = 600 s, exactly the chain [A, B, C] is
\* reported, and [B, C, D] is not.
C10_ChainScenario ==
    pc = "communication_chains" =>
        /\ Len(result) = 1
        /\ result[1].sequence = <<"A", "B", "C">>
        /\ result[1].total_time_seconds = 300
        /\ \A k \in 1..Len(result) : result[k].sequence # <<"B", "C", "D">>

\* the scenario after the call, where C also holds an incoming record from B
\* at the instant of B's call to C
C10_Witness ==
    /\ pc = "communication_chains"
    /\ Len(result) = 1
    /\ \E i \in 1..Len(users[3].records) :
           /\ users[3].records[i].direction = "in"
           /\ users[3].records[i].correspondent_id = "B"
           /\ users[3].records[i].datetime = users[2].records[Len(users[2].records)].datetime

-----------------------------------------------------------------------------
(* Claims about identify_bridges *)

\* user n has a record with contact z
HasRecordWith(n, z) ==
    \E i \in 1..Len(users[n].records) : users[n].records[i].correspondent_id = z

\* user n is the only user with a record with contact z
OnlyContactOf(n, z) ==
    /\ HasRecordWith(n, z)
    /\ \A m \in (1..Len(users)) \ {n} : ~HasRecordWith(m, z)

\* contact z is listed in the exclusive contacts of the entry of entity id
ListedUnder(id, z) ==
    \E k \in 1..Len(result) :
        /\ result[k].user_id = id
        /\ z \in SetOf(result[k].exclusive_contacts)

\* contact z is listed under the entity of user n and under no other entity
ListedOnlyUnder(n, z) ==
    /\ ListedUnder(user_ids[n], z)
    /\ \A k \in 1..Len(result) :
           result[k].user_id # user_ids[n] => z \notin SetOf(result[k].exclusive_contacts)

ExclusiveRemainder(n) ==
    {z \in IdSet(user_ids) :
        /\ HasRecordWith(n, z)
        /\ \A m \in (1..Len(users)) \ {n} : ~HasRecordWith(m, z)
        /\ z # user_ids[n]}

\* C12: identify_bridges returns an entry for entity X exactly when X's
\* in-network contacts minus every other entity's in-network contacts minus
\* {X} is non-empty; exclusive_contacts is that set, so every exclusive
\* contact is a modeled entity other than X and belongs to at most one
\* bridge; entries are ordered by exclusive_count descending.
C12_BridgesCharacterised ==
    pc = "identify_bridges" =>
        /\ \A n \in 1..Len(users) :
               Cardinality({k \in 1..Len(result) : result[k].user_id = user_ids[n]})
                   = IF ExclusiveRemainder(n) # {} THEN 1 ELSE 0
        /\ \A k \in 1..Len(result) : \E n \in 1..Len(users) :
               /\ result[k].user_id = user_ids[n]
               /\ SetOf(result[k].exclusive_contacts) = ExclusiveRemainder(n)
               /\ Len(result[k].exclusive_contacts) = Cardinality(ExclusiveRemainder(n))
               /\ result[k].exclusive_count = Cardinality(ExclusiveRemainder(n))
               /\ SetOf(result[k].exclusive_contacts) \subseteq IdSet(user_ids) \ {user_ids[n]}
        /\ \A k, l \in 1..Len(result) :
               k # l => SetOf(result[k].exclusive_contacts)
                            \cap SetOf(result[l].exclusive_contacts) = {}
        /\ \A k, l \in 1..Len(result) :
               k < l => result[k].exclusive_count >= result[l].exclusive_count

\* a call where B, with two exclusive contacts, is listed before A, with one
C12_Witness ==
    /\ pc = "identify_bridges"
    /\ Len(result) = 2
    /\ result[1].user_id = "B" /\ result[1].exclusive_count = 2
    /\ result[2].user_id = "A" /\ result[2].exclusive_count = 1

-----------------------------------------------------------------------------
(* Claims about build_communication_matrix *)

\* the records of all users, as pairs <<user, position in its list>>
AllRecordSlots ==
    UNION {{<<n, i>> : i \in 1..Len(users[n].records)} : n \in 1..Len(users)}

\* the records that go from entity f to entity t
RecordsFromTo(f, t) ==
    {s \in AllRecordSlots :
        LET r == users[s[1]].records[s[2]]
        IN  \/ r.direction = "out" /\ f = user_ids[s[1]] /\ t = r.correspondent_id
            \/ r.direction # "out" /\ f = r.correspondent_id /\ t = user_ids[s[1]]}

\* the sum of the values of a dict
RECURSIVE SumOfValues(_)
SumOfValues(d) ==
    IF DOMAIN d = {} THEN 0
    ELSE LET k == CHOOSE x \in DOMAIN d : TRUE
         IN  d[k] + SumOfValues([x \in DOMAIN d \ {k} |-> d[x]])

\* C20: build_communication_matrix counts each record exactly once under a
\* directed key, (entity, correspondent) when direction is 'out' and
\* (correspondent, entity) otherwise; the sum of all counts equals the total
\* number of records and no key has count 0.
C20_DirectedCounts ==
    pc = "build_communication_matrix" =>
        /\ DOMAIN result = {k \in Parties \X Parties : RecordsFromTo(k[1], k[2]) # {}}
        /\ \A k \in DOMAIN result : result[k] = Cardinality(RecordsFromTo(k[1], k[2]))
        /\ SumOfValues(result) = Cardinality(AllRecordSlots)
        /\ \A k \in DOMAIN result : result[k] > 0

\* a call where an outgoing record of A to B and an incoming record of B from
\* A are counted under the same key, next to an incoming record of A
C20_Witness ==
    /\ pc = "build_communication_matrix"
    /\ <<"A", "B">> \in DOMAIN result
    /\ result[<<"A", "B">>] = 2
    /\ HasRecordWith(2, "A")
    /\ <<"C", "A">> \in DOMAIN result

-----------------------------------------------------------------------------
(* Claims about meeting_detection *)

\* the tier the rule assigns to an activity count
TierOf(activity) ==
    CASE activity < 3 -> "high"
      [] 3 <= activity /\ activity < 6 -> "medium"
      [] activity >= 6 -> "low"

-----------------------------------------------------------------------------
(* Claims about travel_pattern_match *)

\* the positions of the located records of user u
LocatedAt(u) == {i \in 1..Len(users[u].records) : ~NullTag(users[u].records[i].antenna)}

\* record i of user u comes before its record j in time-sorted order; records
\* of the same time keep their list order
SortsBefore(u, i, j) ==
    LET r == users[u].records
    IN  \/ r[i].datetime < r[j].datetime
        \/ r[i].datetime = r[j].datetime /\ i < j

\* the transitions of user u: consecutive located records with different tags
TransitionsOf(u) ==
    {t \in LocatedAt(u) \X LocatedAt(u) :
        /\ SortsBefore(u, t[1], t[2])
        /\ \A k \in LocatedAt(u) : ~(SortsBefore(u, t[1], k) /\ SortsBefore(u, k, t[2]))
        /\ users[u].records[t[1]].antenna # users[u].records[t[2]].antenna}

FromOf(u, t) == users[u].records[t[1]].antenna
ToOf(u, t) == users[u].records[t[2]].antenna
ArrivalOf(u, t) == users[u].records[t[2]].datetime

\* the pairs of a transition of A and a transition of B that match within w
\* minutes
MatchingTransitions(w) ==
    {m \in TransitionsOf(1) \X TransitionsOf(2) :
        /\ FromOf(1, m[1]) = FromOf(2, m[2])
        /\ ToOf(1, m[1]) = ToOf(2, m[2])
        /\ Abs(ArrivalOf(1, m[1]) - ArrivalOf(2, m[2])) <= w * 60}

MatchOf(m) ==
    [from_antenna |-> FromOf(1, m[1]),
     to_antenna |-> ToOf(1, m[1]),
     user_a_time |-> ArrivalOf(1, m[1]),
     user_b_time |-> ArrivalOf(2, m[2]),
     delta_seconds |-> Abs(ArrivalOf(1, m[1]) - ArrivalOf(2, m[2]))]

-----------------------------------------------------------------------------
(* Claims about records without a correspondent *)

\* no key or contact of the returned collection is null
NoNullInResult ==
    CASE pc = "build_communication_matrix" ->
             \A k \in DOMAIN result : k[1] # None /\ k[2] # None
      [] pc = "degree_centrality" ->
             \A k \in 1..Len(result) :
                 /\ None \notin SetOf(result[k].in_network_list)
                 /\ None \notin SetOf(result[k].out_of_network_list)
      [] pc = "shared_contacts" ->
             \A k \in 1..Len(result) : result[k].contact # None
      [] pc = "communication_volume_matrix" ->
             \A k \in 1..Len(result) : None \notin SetOf(result[k].pair)
      [] pc = "communication_chains" ->
             \A k \in 1..Len(result) : None \notin SetOf(result[k].sequence)
      [] OTHER -> TRUE

\* C15: a record whose correspondent id is null is treated as no signal: no
\* key or contact equal to null appears in the communication matrix, the
\* degree centrality contact sets, the shared contacts, the communication
\* volume matrix or the chains, and it never makes the call fail.
C15_NullCorrespondentIsNoSignal ==
    /\ pc # "TypeError"
    /\ NoNullInResult

-----------------------------------------------------------------------------
(* Claims about every indicator *)

Indicators == PairIndicators \cup ListIndicators

\* there are no users, or no user has a record
EmptyInput == \A n \in 1..Len(users) : users[n].records = <<>>

\* a call has ended in an error or has not ended
Failed == pc \notin Indicators \cup {"input"}

\* C13 as stated: every correlation operation returns an empty collection and
\* does not fail when given zero entities or entities with zero records, and
\* multi_user_colocation returns an empty list whenever fewer than 3 entities
\* are supplied.
C13_EmptyInputEmptyResult ==
    /\ EmptyInput => ~Failed
    /\ EmptyInput /\ pc \in Indicators => DOMAIN result = {}
    /\ pc = "multi_user_colocation" /\ Len(users) < 3 => result = <<>>

\* C13 as amended: every correlation operation except degree_centrality
\* returns an empty collection and does not fail when given zero entities or
\* entities with zero records; degree_centrality then returns one entry per
\* entity, with zero counts and empty lists; multi_user_colocation returns an
\* empty list whenever fewer than 3 entities are supplied.
C13_EmptyInputEmptyResultButDegree ==
    /\ EmptyInput => ~Failed
    /\ EmptyInput /\ pc \in Indicators \ {"degree_centrality"} => DOMAIN result = {}
    /\ EmptyInput /\ pc = "degree_centrality" =>
           /\ Len(result) = Len(users)
           /\ \A k \in 1..Len(result) :
                  /\ result[k].total_contacts = 0
                  /\ result[k].in_network_contacts = 0
                  /\ result[k].out_of_network_contacts = 0
                  /\ result[k].in_network_list = <<>>
                  /\ result[k].out_of_network_list = <<>>
    /\ pc = "multi_user_colocation" /\ Len(users) < 3 => result = <<>>

\* degree_centrality has returned three entries for three users without
\* records
C13_Witness ==
    /\ pc = "degree_centrality"
    /\ Len(users) = 3
    /\ EmptyInput
    /\ Len(result) = 3

\* C14: structurally invalid input fails fast: when the entity list passed to
\* a network operation is shorter than its paired identifier list, the call
\* ends in an InvalidInput error instead of returning a result.
C14_ShortEntityListFails ==
    pc \in ListIndicators \ {"multi_user_colocation"} /\ Len(users) < Len(user_ids)
        => pc = "InvalidInput"

\* C16: no correlation operation mutates its inputs: after any call every
\* caller-supplied record list (content and order), user list, id list and
\* coordinate table is unchanged.
C16_InputsUnchanged ==
    [][pc' # "input" => users' = users /\ user_ids' = user_ids /\ window' = window]_vars

\* travel_pattern_match has returned for a user whose records were, and still
\* are, out of time order
C16_Witness ==
    /\ pc = "travel_pattern_match"
    /\ Len(RecsA) = 2
    /\ RecsA[1].datetime > RecsA[2].datetime

\* C17: running any correlation function twice on the same unchanged input
\* yields result collections that are equal in both values and ordering.
C17_SecondRunEqualsFirst ==
    previous # <<>> => result = previous[1]

-----------------------------------------------------------------------------
(* Claims about degree_centrality and shared_contacts *)

\* the distinct contacts in the records of user n
ContactSet(n) == {z \in Parties : HasRecordWith(n, z)}

\* a list without repeated elements
NoRepeats(l) == Cardinality(SetOf(l)) = Len(l)

\* C21: degree_centrality partitions each entity's distinct contacts into
\* in-network (contact is one of user_ids) and out-of-network: the two lists
\* are disjoint, their union is the contact set, total_contacts =
\* in_network_contacts + out_of_network_contacts, and entities are returned in
\* descending order of total_contacts.
C21_DegreePartition ==
    pc = "degree_centrality" =>
        /\ Len(result) = Len(users)
        /\ \A n \in 1..Len(users) : \E k \in 1..Len(result) :
               LET e == result[k]
               IN  /\ e.user_id = user_ids[n]
                   /\ SetOf(e.in_network_list) = ContactSet(n) \cap IdSet(user_ids)
                   /\ SetOf(e.out_of_network_list) = ContactSet(n) \ IdSet(user_ids)
                   /\ SetOf(e.in_network_list) \cap SetOf(e.out_of_network_list) = {}
                   /\ SetOf(e.in_network_list) \cup SetOf(e.out_of_network_list)
                        = ContactSet(n)
                   /\ NoRepeats(e.in_network_list) /\ NoRepeats(e.out_of_network_list)
                   /\ e.in_network_contacts = Len(e.in_network_list)
                   /\ e.out_of_network_contacts = Len(e.out_of_network_list)
                   /\ e.total_contacts = Cardinality(ContactSet(n))
                   /\ e.total_contacts = e.in_network_contacts + e.out_of_network_contacts
        /\ \A k, l \in 1..Len(result) :
               k < l => result[k].total_contacts >= result[l].total_contacts

\* a call that returned C first, with a contact inside and one outside the
\* network, before A and B
C21_Witness ==
    /\ pc = "degree_centrality"
    /\ result[1].user_id = "C"
    /\ result[1].in_network_contacts = 1
    /\ result[1].out_of_network_contacts = 1
    /\ result[2].total_contacts = 1

\* the entities with a record with contact z
SharersOf(z) == {n \in 1..Len(users) : HasRecordWith(n, z)}

\* C22: shared_contacts returns a contact exactly when at least min_shared
\* supplied entities have a record with that contact; its value lists each
\* such entity once, and contacts are returned in descending order of the
\* number of sharing entities.
C22_SharedContacts ==
    pc = "shared_contacts" =>
        /\ {result[k].contact : k \in 1..Len(result)}
             = {z \in Parties : Cardinality(SharersOf(z)) >= param}
        /\ \A k, l \in 1..Len(result) : result[k].contact = result[l].contact => k = l
        /\ \A k \in 1..Len(result) :
               /\ SetOf(result[k].user_list)
                    = {user_ids[n] : n \in SharersOf(result[k].contact)}
               /\ NoRepeats(result[k].user_list)
        /\ \A k, l \in 1..Len(result) :
               k < l => Len(result[k].user_list) >= Len(result[l].user_list)

\* a call with min_shared 2 that returned D, the contact of two entities, and
\* not B, a contact of A alone
C22_Witness ==
    /\ pc = "shared_contacts"
    /\ param = 2
    /\ Len(result) = 1
    /\ result[1].contact = "D"
    /\ Len(result[1].user_list) = 2
    /\ HasRecordWith(1, "B")

-----------------------------------------------------------------------------
(* Claims about communication_volume_matrix *)

RecordAt(slot) == users[slot[1]].records[slot[2]]

\* the records exchanged between x and y, whichever user's list holds them
RecordsBetween(x, y) ==
    {slot \in AllRecordSlots :
        {user_ids[slot[1]], RecordAt(slot).correspondent_id} = {x, y}}

\* the sum of the non-null call durations of the call records among S
RECURSIVE SumOfDurations(_)
SumOfDurations(S) ==
    IF S = {} THEN 0
    ELSE LET slot == CHOOSE x \in S : TRUE
             r == RecordAt(slot)
         IN  (IF r.interaction = "call" /\ r.call_duration # <<>>
              THEN r.call_duration[1] ELSE 0)
             + SumOfDurations(S \ {slot})

RECURSIVE SumOfTotals(_)
SumOfTotals(entries) ==
    IF entries = <<>> THEN 0 ELSE Head(entries).total + SumOfTotals(Tail(entries))

\* C23: communication_volume_matrix aggregates records under an undirected
\* key, so (A,B) and (B,A) traffic land in the same entry whichever entity's
\* log holds the record; for every entry total = calls + texts, duration is
\* the sum of the non-null call durations of its call records, the totals sum
\* to the number of records, and entries are ordered by total descending.
C23_UndirectedVolume ==
    pc = "communication_volume_matrix" =>
        /\ \A k, l \in 1..Len(result) :
               SetOf(result[k].pair) = SetOf(result[l].pair) => k = l
        /\ \A slot \in AllRecordSlots : \E k \in 1..Len(result) :
               SetOf(result[k].pair)
                 = {user_ids[slot[1]], RecordAt(slot).correspondent_id}
        /\ \A k \in 1..Len(result) :
               LET e == result[k]
                   mine == RecordsBetween(e.pair[1], e.pair[2])
               IN  /\ e.total = Cardinality(mine)
                   /\ e.calls = Cardinality({x \in mine : RecordAt(x).interaction = "call"})
                   /\ e.total = e.calls + e.texts
                   /\ e.duration = SumOfDurations(mine)
        /\ SumOfTotals(result) = Cardinality(AllRecordSlots)
        /\ \A k, l \in 1..Len(result) : k < l => result[k].total >= result[l].total

\* a call that put a timed call from A's list and a text from B's list in one
\* entry of A and B, ahead of an entry that was opened earlier
C23_Witness ==
    /\ pc = "communication_volume_matrix"
    /\ Len(result) = 2
    /\ SetOf(result[1].pair) = {"A", "B"}
    /\ result[1].total = 2 /\ result[1].calls = 1 /\ result[1].duration = 5
    /\ HasRecordWith(1, "B") /\ HasRecordWith(2, "A")
    /\ RecsA[1].correspondent_id = "C"

-----------------------------------------------------------------------------
(* Claims about network_timeline *)

\* midnight of the day of the earliest record
FirstMidnight ==
    LET earliest == MinOf({RecordAt(slot).datetime : slot \in AllRecordSlots})
    IN  earliest - (earliest % (24 * 3600))

\* the records whose time lies in [start, end)
RecordsIn(start, end) ==
    {slot \in AllRecordSlots :
        start <= RecordAt(slot).datetime /\ RecordAt(slot).datetime < end}

\* the undirected pair of a record
PairOfRecord(slot) == {user_ids[slot[1]], RecordAt(slot).correspondent_id}

RECURSIVE SumOfCommunications(_)
SumOfCommunications(buckets) ==
    IF buckets = <<>> THEN 0
    ELSE Head(buckets).total_communications + SumOfCommunications(Tail(buckets))

\* C24: network_timeline partitions all records into contiguous half-open
\* buckets [start, start + h hours) whose first start is midnight of the
\* earliest record's day: every record is counted in exactly one bucket (the
\* total_communications of the returned buckets sum to the number of
\* records), only non-empty buckets are returned, buckets are in strictly
\* increasing start order, and unique_pair_count equals the number of distinct
\* undirected pairs in the bucket.
C24_TimelinePartition ==
    pc = "network_timeline" /\ AllRecordSlots # {} =>
        /\ \A k \in 1..Len(result) :
               LET b == result[k]
               IN  /\ b.start >= FirstMidnight
                   /\ (b.start - FirstMidnight) % (param * 3600) = 0
                   /\ b.end = b.start + param * 3600
                   /\ b.total_communications = Cardinality(RecordsIn(b.start, b.end))
                   /\ b.total_communications > 0
                   /\ {SetOf(b.active_pairs[i]) : i \in 1..Len(b.active_pairs)}
                        = {PairOfRecord(slot) : slot \in RecordsIn(b.start, b.end)}
                   /\ b.unique_pair_count
                        = Cardinality({PairOfRecord(slot) : slot \in RecordsIn(b.start, b.end)})
                   /\ Len(b.active_pairs) = b.unique_pair_count
        /\ \A slot \in AllRecordSlots :
               Cardinality({k \in 1..Len(result) :
                               slot \in RecordsIn(result[k].start, result[k].end)}) = 1
        /\ SumOfCommunications(result) = Cardinality(AllRecordSlots)
        /\ \A k, l \in 1..Len(result) : k < l => result[k].start < result[l].start

\* a call with hourly buckets that put the records a second apart across
\* the hour's border in neighbouring buckets
C24_Witness ==
    /\ pc = "network_timeline"
    /\ param = 1
    /\ Len(result) = 2
    /\ result[1].start = 0 /\ result[1].end = 3600
    /\ result[2].start = 3600
    /\ result[1].total_communications = 1
    /\ result[2].total_communications = 2
    /\ result[2].unique_pair_count = 1

\* what the loop returns is what the call as a whole returns
LoopAgreesWithCall ==
    pc = "network_timeline" => result \in network_timeline(users, user_ids, param)

\* C30: network_timeline terminates on every non-empty input with
\* time_bucket_hours >= 1: each loop iteration strictly advances the bucket
\* start, so it eventually passes the last record's time; with
\* time_bucket_hours = 0 the bucket start never advances and the loop does
\* not terminate.
C30_TerminatesUnlessZeroHours ==
    /\ (pc = "network_timeline.while" /\ param >= 1) ~> (pc = "network_timeline")
    /\ [][pc = "network_timeline.while" /\ param >= 1 /\ current_start' # current_start
            => current_start' > current_start]_vars
    /\ [][pc = "network_timeline.while" /\ param = 0
            => pc' = "network_timeline.while" /\ current_start' = current_start]_vars

\* a call with hourly buckets has returned after its loop went from midnight
\* past a record of the next day
C30_Witness ==
    /\ pc = "network_timeline"
    /\ param = 1
    /\ current_start > 25 * 3600
    /\ Len(result) = 2
    /\ result[1].start = 0

-----------------------------------------------------------------------------
(* Claims about the order of the input *)

\* list s rearranged by permutation p of its positions
Rearranged(s, p) == [k \in 1..Len(s) |-> s[p[k]]]

\* the chains of a list as a set: sequence and the two timestamps
ChainSet(chains) == {<<chains[k].sequence, chains[k].times>> : k \in 1..Len(chains)}

\* C25: the set of chains (sequence and the two timestamps) reported by
\* communication_chains is the same for every permutation of the
\* users/user_ids input lists, including inputs in which outgoing events of
\* different entities carry equal timestamps.
C25_ChainsWhateverTheUserOrder ==
    pc = "communication_chains" =>
        \A p \in Permutations(1..Len(users)) :
            ChainSet(communication_chains(Rearranged(users, p), Rearranged(user_ids, p),
                                          window))
              = ChainSet(result)

\* user u's record list rearranged by permutation p; the other users as they are
WithRecordsRearranged(us, u, p) ==
    [us EXCEPT ![u].records = Rearranged(us[u].records, p)]

\* C26: travel_pattern_match and multi_user_colocation return the same set of
\* results for every reordering of each entity's record list, including when
\* an entity has several records with the same timestamp.
C26_RecordOrderIrrelevant ==
    /\ pc = "travel_pattern_match" =>
           \A pa \in Permutations(1..Len(RecsA)), pb \in Permutations(1..Len(RecsB)) :
               SetOf(travel_pattern_match(WithRecordsRearranged(users, 1, pa)[1],
                                          WithRecordsRearranged(users, 2, pb)[2],
                                          window, param))
                 = SetOf(result)
    /\ pc = "multi_user_colocation" =>
           \A u \in 1..Len(users) : \A p \in Permutations(1..Len(users[u].records)) :
               SetOf(multi_user_colocation(WithRecordsRearranged(users, u, p), window))
                 = SetOf(result)

-----------------------------------------------------------------------------
(* Claims about the clusters of multi_user_colocation *)

\* the clusters detected for the present input, before deduplication
DetectedClusters ==
    FindClusters(SortHits(CollectHits(users, 1)), 1, WindowSeconds(window))

SameTagAndParticipants(c, d) ==
    c.antenna = d.antenna /\ c.user_indices = d.user_indices

\* earliest times in the same clock minute
SameMinute(c, d) == c.earliest_time \div 60 = d.earliest_time \div 60

\* earliest times less than one minute apart
UnderAMinuteApart(c, d) == Abs(c.earliest_time - d.earliest_time) < 60

\* the positions of the detected clusters that no earlier detected cluster
\* matches in tag, participants and clock minute
FirstOfTheirMinute ==
    LET d == DetectedClusters
    IN {i \in 1..Len(d) :
           \A h \in 1..(i - 1) : ~(SameTagAndParticipants(d[h], d[i]) /\ SameMinute(d[h], d[i]))}

\* the k-th smallest element of a set of positions
KthOf(S, k) == CHOOSE i \in S : Cardinality({h \in S : h <= i}) = k

\* C27 as stated: of two detected clusters with the same tag and participants
\* whose earliest times are less than one minute apart only one is returned,
\* and no two returned clusters share the key (tag, participants, minute).
C27_UnderAMinuteCollapses ==
    pc = "multi_user_colocation" =>
        /\ \A k, l \in 1..Len(result) :
               k < l /\ SameTagAndParticipants(result[k], result[l])
                   => ~UnderAMinuteApart(result[k], result[l])
        /\ \A k, l \in 1..Len(result) :
               k < l /\ SameTagAndParticipants(result[k], result[l])
                   => ~SameMinute(result[k], result[l])

\* C27: of the detected clusters with the same tag, the same participants and
\* earliest times in the same clock minute, multi_user_colocation returns the
\* first detected only, so no two returned clusters share the key (tag,
\* participants, earliest time truncated to the minute); clusters less than a
\* minute apart on the two sides of a minute border are both returned.
C27_SameMinuteCollapses ==
    pc = "multi_user_colocation" =>
        /\ Len(result) = Cardinality(FirstOfTheirMinute)
        /\ \A k \in 1..Len(result) : result[k] = DetectedClusters[KthOf(FirstOfTheirMinute, k)]
        /\ \A k, l \in 1..Len(result) :
               k < l /\ SameTagAndParticipants(result[k], result[l])
                   => ~SameMinute(result[k], result[l])

\* two clusters of the same entities at the same tag detected 40 seconds
\* apart in one clock minute, of which the first alone is returned
C27_Witness ==
    /\ pc = "multi_user_colocation"
    /\ Len(DetectedClusters) = 2
    /\ DetectedClusters[1].earliest_time = 0
    /\ DetectedClusters[2].earliest_time = 40
    /\ SameTagAndParticipants(DetectedClusters[1], DetectedClusters[2])
    /\ result = <<DetectedClusters[1]>>

\* the record lists of three entities holding up to max records in all
GroupInputs(max) ==
    LET Lengths == {l \in [1..3 -> 0..max] : l[1] + l[2] + l[3] <= max}
    IN UNION {{<<a, b, c>> : a \in [1..l[1] -> GroupRecords],
                              b \in [1..l[2] -> GroupRecords],
                              c \in [1..l[3] -> GroupRecords]} : l \in Lengths}

\* the users holding the record lists recs
GroupUsers(recs) == [n \in 1..3 |-> User(recs[n], Table(Places, "here"))]

\* the hits of the returned cluster c lie in [earliest, earliest + W]
WithinWindowOfAnchor(c) ==
    /\ c.latest_time <= c.earliest_time + window * 60
    /\ c.time_span_seconds = c.latest_time - c.earliest_time
    /\ c.user_indices = SortedList(EntitiesAt(c.antenna, c.earliest_time, window))

\* C28 as stated: the scan from an anchor stops at the first later hit past
\* anchor.time + W, and some input gives a cluster with time_span_seconds > W.
C28_SpanBeyondWindowReachable ==
    /\ pc = "multi_user_colocation" =>
           \A k \in 1..Len(result) : result[k].latest_time <= result[k].earliest_time + window * 60
    /\ \E recs \in GroupInputs(MaxGroupRecords) : \E w \in Windows :
           LET unique == multi_user_colocation(GroupUsers(recs), w)
           IN \E k \in 1..Len(unique) : unique[k].time_span_seconds > w * 60

\* C28: in multi_user_colocation the forward scan from an anchor hit stops at
\* the first later hit whose time exceeds anchor.time + W, so every hit of a
\* returned cluster lies in [anchor.time, anchor.time + W], the anchor is its
\* earliest hit and time_span_seconds never exceeds W: a hit that only a
\* chain of absorbed hits would link to the anchor is not absorbed.
C28_SpanWithinWindow ==
    pc = "multi_user_colocation" =>
        \A k \in 1..Len(result) :
            /\ WithinWindowOfAnchor(result[k])
            /\ result[k].time_span_seconds <= window * 60

\* a cluster of span 40 s returned with window 1 while a later hit at the
\* same tag, 80 s after the anchor, was left out
C28_Witness ==
    /\ pc = "multi_user_colocation"
    /\ window = 1
    /\ Len(result) = 1
    /\ result[1].earliest_time = 0
    /\ result[1].time_span_seconds = 40
    /\ \E u \in 1..Len(users) : \E i \in 1..Len(users[u].records) :
           /\ users[u].records[i].antenna = result[1].antenna
           /\ users[u].records[i].datetime = 80

-----------------------------------------------------------------------------
(* Claims about the one-sidedness of meeting_detection *)

\* the record lists B may hold in another run: up to two records, located or not
OtherRecordsOfB ==
    UNION {[1..m -> MeetingRecordsB \cup UnlocatedRecordsB] : m \in 0..2}

\* B with the record list recs
OtherB(recs) == [users[2] EXCEPT !.records = recs]

\* list s with x put in at position p
PutIn(s, p, x) == SubSeq(s, 1, p - 1) \o <<x>> \o SubSeq(s, p, Len(s))

====
